---------------------------- MODULE Spec2Model ----------------------------
(***************************************************************************)
(* QuantumFlow backend: gate normalisation (_apply_gate, _get_angle), the  *)
(* measurement path (run_circuit behind POST /api/v1/execute) and the      *)
(* column walk (get_state_evolution behind POST /api/v1/execute-evolution).*)
(*                                                                         *)
(* Conventions of the model                                                *)
(*   - a Python Optional is a sequence of length 0 (None) or 1 (the value);*)
(*   - a params value (float | int | str) is a record with its kind;       *)
(*   - the circuit object of the simulation library is the sequence of the *)
(*     gate applications made on it, with the arguments as they were       *)
(*     passed; the library's state vector of a circuit is a function of    *)
(*     that sequence and is kept as the term Statevector(qc);              *)
(*   - a probability is a double: its exponent and its 53 mantissa bits.   *)
(***************************************************************************)
EXTENDS Integers, Sequences, FiniteSets, TLC

VARIABLES
    req,        \* the request body: num_qubits, gates, shots, memory
    endpoint,   \* which handler serves it: "none", "execute", "evolution", "gate"
    pc,         \* the handler's position
    qc,         \* the circuit built so far: the sequence of applied operations
    todo,       \* the gates (indices into req.gates) the current loop has left
    cols,       \* get_state_evolution: the column keys left, current one first
    log,        \* one entry per call of _apply_gate: the gate and how it ended
    handed,     \* the values handed to _get_angle, in call order
    snapshots,  \* get_state_evolution: the snapshots appended so far
    submitted,  \* run_circuit: the circuit was given to backend.run
    eng,        \* run_circuit: how far the engine got and what get_memory did
    result,     \* run_circuit: the dict it returned, if it returned
    response    \* the HTTP response of the handler

vars == <<req, endpoint, pc, qc, todo, cols, log, handed, snapshots,
          submitted, eng, result, response>>

-----------------------------------------------------------------------------
(* Bounds of the model *)

MaxQubit == 1       \* qubit indices in gate records are 0..MaxQubit
MaxGates == 3       \* longest gate list of a request
MaxPos   == 1       \* positions are None or 0..MaxPos
MaxShots == 2       \* shots is 1..MaxShots when memory may be asked
MaxCountedShots == 10   \* shots is 1..MaxCountedShots when only counts are read

-----------------------------------------------------------------------------
(* Python values *)

None == <<>>
Some(v) == <<v>>

Num(n) == [kind |-> "num", n |-> n, s |-> ""]
Str(s) == [kind |-> "str", n |-> 0, s |-> s]

\* bool(v) of a params value: 0 and "" are falsy
Truthy(v) == IF v.kind = "num" THEN v.n # 0 ELSE v.s # ""

\* d.get(key): None when the key is absent
Get(d, key) == IF key \in DOMAIN d THEN Some(d[key]) ELSE None

\* a or b, on Optionals holding params values (None is falsy)
PyOr(a, b) == IF a # None /\ Truthy(a[1]) THEN a ELSE b

\* xs[0] if xs else None
FirstOrNone(xs) == IF Len(xs) > 0 THEN Some(xs[1]) ELSE None

Abs(n) == IF n < 0 THEN -n ELSE n

\* float(s) for the strings of the model: the digit strings parse
ParseFloat(s) ==
    CASE s = "0"  -> Some(0)
      [] s = "45" -> Some(45)
      [] OTHER    -> None

-----------------------------------------------------------------------------
(* Python floats: IEEE-754 binary64, for the non-negative quotients of the model *)

\* the significant bits of a double
MantissaBits == 53

RECURSIVE Pow2(_)
Pow2(n) == IF n = 0 THEN 1 ELSE 2 * Pow2(n - 1)

RECURSIVE ExponentUp(_, _, _)
ExponentUp(c, s, e) ==
    IF s * Pow2(e + 1) <= c THEN ExponentUp(c, s, e + 1) ELSE e

RECURSIVE ExponentDown(_, _, _)
ExponentDown(c, s, k) ==
    IF c * Pow2(k) >= s THEN k ELSE ExponentDown(c, s, k + 1)

\* floor(log2(c / s)), c and s positive integers
Exponent(c, s) ==
    IF c >= s THEN ExponentUp(c, s, 0) ELSE -ExponentDown(c, s, 1)

\* 2^n modulo den, by repeated squaring
RECURSIVE PowMod2(_, _)
PowMod2(n, den) ==
    IF n = 0 THEN 1 % den
    ELSE LET h == PowMod2(n \div 2, den)
         IN  (h * h * (IF n % 2 = 1 THEN 2 ELSE 1)) % den

\* the remainder that n steps of the long division of r by den leave (r < den)
Remainder(r, den, n) == (r * PowMod2(n, den)) % den

\* the function f on 1..n as a sequence of n bits
Bits(f, n) == SubSeq(f, 1, n)

\* long division: the first n bits of r / den after the point
QuotientBits(r, den, n) ==
    Bits([i \in 1..n |-> IF 2 * Remainder(r, den, i - 1) >= den THEN 1 ELSE 0], n)

\* bits + 1, most significant bit first (not called on all ones)
Increment(bits) ==
    LET z == CHOOSE i \in 1..Len(bits) :
                 bits[i] = 0 /\ \A j \in (i + 1)..Len(bits) : bits[j] = 1
    IN  Bits([i \in 1..Len(bits) |->
                 IF i < z THEN bits[i] ELSE IF i = z THEN 1 ELSE 0], Len(bits))

ZeroBits(n) == Bits([i \in 1..n |-> 0], n)

\* a double: bits[j] has weight 2^(exp - j + 1)
Double(e, m) == [exp |-> e, bits |-> m]

\* float(c) / float(s): the double nearest to c / s, ties to the even mantissa
FloatDiv(c, s) ==
    IF c = 0 THEN Double(0, ZeroBits(MantissaBits))
    ELSE
    LET e == Exponent(c, s)
        num == IF e >= 0 THEN c ELSE c * Pow2(-e)
        den == IF e >= 0 THEN s * Pow2(e) ELSE s
        q == QuotientBits(num - den, den, MantissaBits - 1)
        m == <<1>> \o q
        rest == Remainder(num - den, den, MantissaBits - 1)
        up == \/ 2 * rest > den
              \/ 2 * rest = den /\ m[MantissaBits] = 1
    IN  IF ~up THEN Double(e, m)
        ELSE IF \A j \in 1..MantissaBits : m[j] = 1
             THEN Double(e + 1, [ZeroBits(MantissaBits) EXCEPT ![1] = 1])
             ELSE Double(e, Increment(m))

-----------------------------------------------------------------------------
(* _get_angle *)

\* the integers n with abs(n) <= 2*pi are those with abs(n) <= 6
TwoPiFloor == 6

_get_angle(value) ==
    LET parsed == IF value.kind = "num" THEN Some(value.n) ELSE ParseFloat(value.s)
    IN  IF parsed = None
        THEN [ok |-> FALSE, error |-> "ValueError",
              detail |-> "Invalid angle value: " \o value.s, angle |-> None]
        ELSE [ok |-> TRUE, error |-> "", detail |-> "",
              angle |-> Some([n |-> parsed[1],
                              unit |-> IF Abs(parsed[1]) <= TwoPiFloor
                                       THEN "rad" ELSE "deg_to_rad"])]

-----------------------------------------------------------------------------
(* _apply_gate *)

\* one call on the circuit object: qc.<name>(args) or qc.<name>(angle, args)
Op(name, args, angle) == [name |-> name, args |-> args, angle |-> angle]

\* the result of _apply_gate: returned (ok) with the new circuit, or raised
Returned(c, h) ==
    [ok |-> TRUE, qc |-> c, error |-> "", detail |-> "", handed |-> h]
Raised(c, kind, msg, h) ==
    [ok |-> FALSE, qc |-> c, error |-> kind, detail |-> msg, handed |-> h]

gate_params(gate) == IF gate.params = None THEN <<>> ELSE gate.params[1]

SingleQubitPlain == {"h", "x", "y", "z", "s", "t"}
Vocabulary ==
    SingleQubitPlain \cup
    {"rx", "ry", "rz", "p", "cnot", "cx", "cz", "swap", "toffoli", "ccx"}

single_qubit_gate(c, gate) ==
    Returned(Append(c, Op(gate.type, <<gate.qubit>>, None)), <<>>)

\* params.get("theta") or params.get("angle") or 0
theta_arg(params) ==
    LET v == PyOr(PyOr(Get(params, "theta"), Get(params, "angle")), Some(Num(0)))
    IN  v[1]

\* params.get("phi") or params.get("lambda") or params.get("angle") or 0
phi_arg(params) ==
    LET v == PyOr(PyOr(PyOr(Get(params, "phi"), Get(params, "lambda")),
                       Get(params, "angle")), Some(Num(0)))
    IN  v[1]

rotation_gate(c, gate) ==
    LET arg == IF gate.type \in {"rx", "ry"}
               THEN theta_arg(gate_params(gate))
               ELSE phi_arg(gate_params(gate))
        r   == _get_angle(arg)
    IN  IF r.ok
        THEN Returned(Append(c, Op(gate.type, <<gate.qubit>>, r.angle)), <<arg>>)
        ELSE Raised(c, r.error, r.detail, <<arg>>)

\* the slip "qubit or controls[0]": qubit 0 is falsy
resolve_control_truthy(qubit, controls) ==
    IF qubit # None /\ qubit[1] # 0 THEN qubit ELSE FirstOrNone(controls)

\* control = qubit if qubit is not None else (controls[0] if controls else None)
resolve_control(qubit, controls) ==
    IF qubit # None THEN qubit ELSE FirstOrNone(controls)

\* target = targets[0] if targets else None
resolve_target(targets) == FirstOrNone(targets)

controlled_gate(c, gate) ==
    LET control == resolve_control(gate.qubit, gate.controls)
        target  == resolve_target(gate.targets)
    IN  IF control = None \/ target = None
        THEN Raised(c, "ValueError",
                    IF gate.type = "cz"
                    THEN "CZ requires control and target"
                    ELSE "CNOT requires control (qubit/controls[0]) and targets[0]",
                    <<>>)
        ELSE Returned(Append(c, Op(IF gate.type = "cz" THEN "cz" ELSE "cx",
                                   <<control, target>>, None)), <<>>)

\* q1 = qubit if qubit is not None else (targets[0] if targets else None)
swap_q1(gate) == IF gate.qubit # None THEN gate.qubit ELSE FirstOrNone(gate.targets)

\* q2 = targets[0] if targets else (controls[0] if controls else None)
swap_q2(gate) ==
    IF Len(gate.targets) > 0 THEN Some(gate.targets[1]) ELSE FirstOrNone(gate.controls)

swap_gate(c, gate) ==
    LET q1 == swap_q1(gate)
        q2 == swap_q2(gate)
    IN  IF q1 = None \/ q2 = None
        THEN Raised(c, "ValueError",
                    "SWAP requires two qubits (qubit & targets[0] or targets[0] & controls[0])",
                    <<>>)
        ELSE Returned(Append(c, Op("swap", <<q1, q2>>, None)), <<>>)

toffoli_gate(c, gate) ==
    IF Len(gate.controls) < 2 \/ Len(gate.targets) < 1
    THEN Raised(c, "ValueError",
                "Toffoli requires controls[0], controls[1], targets[0]", <<>>)
    ELSE Returned(Append(c, Op("ccx", <<Some(gate.controls[1]), Some(gate.controls[2]),
                                        Some(gate.targets[1])>>, None)), <<>>)

\* an unknown type treated as an error
unknown_gate_raises(c, gate) ==
    Raised(c, "ValueError", "Unsupported gate type", <<>>)

\* else: pass
unknown_gate(c, gate) == Returned(c, <<>>)

_apply_gate(c, gate) ==
    CASE gate.type \in SingleQubitPlain         -> single_qubit_gate(c, gate)
      [] gate.type \in {"rx", "ry", "rz", "p"}  -> rotation_gate(c, gate)
      [] gate.type \in {"cnot", "cx", "cz"}     -> controlled_gate(c, gate)
      [] gate.type = "swap"                     -> swap_gate(c, gate)
      [] gate.type \in {"toffoli", "ccx"}       -> toffoli_gate(c, gate)
      [] OTHER                                  -> unknown_gate(c, gate)

-----------------------------------------------------------------------------
(* Ordering of the gates *)

\* run_circuit.sort_key: p if isinstance(p, int) else 0
sort_key(gate) == IF gate.position # None THEN gate.position[1] ELSE 0

\* get_state_evolution: pos = g.get("position"); if pos is None: pos = 0
column_key(gate) == IF gate.position = None THEN 0 ELSE gate.position[1]

Indices(gates) == [i \in 1..Len(gates) |-> i]

\* an unstable sort: an element goes before the elements of its own key
unstable_insert(gates, s, n) ==
    SelectSeq(s, LAMBDA j : sort_key(gates[j]) < sort_key(gates[n]))
    \o <<n>> \o
    SelectSeq(s, LAMBDA j : sort_key(gates[j]) >= sort_key(gates[n]))

\* sorted() is stable: an element goes behind the elements whose key is <= its own
stable_insert(gates, s, n) ==
    SelectSeq(s, LAMBDA j : sort_key(gates[j]) <= sort_key(gates[n]))
    \o <<n>> \o
    SelectSeq(s, LAMBDA j : sort_key(gates[j]) > sort_key(gates[n]))

RECURSIVE sorted_prefix(_, _)
sorted_prefix(gates, n) ==
    IF n = 0 THEN <<>> ELSE stable_insert(gates, sorted_prefix(gates, n - 1), n)

\* sorted(gates, key=sort_key), as indices into gates
sorted_gates(gates) == sorted_prefix(gates, Len(gates))

RECURSIVE SortedSeq(_)
SortedSeq(S) ==
    IF S = {} THEN <<>>
    ELSE LET m == CHOOSE x \in S : \A y \in S : x <= y
         IN  <<m>> \o SortedSeq(S \ {m})

\* gap filling: every position from 0 to the highest one is a column
column_keys_gap_filled(gates) ==
    IF gates = <<>> THEN <<>>
    ELSE LET ks == {column_key(gates[i]) : i \in 1..Len(gates)}
         IN  SortedSeq(0..(CHOOSE m \in ks : \A k \in ks : k <= m))

\* sorted(columns.keys()): the keys that received a gate
column_keys(gates) ==
    SortedSeq({column_key(gates[i]) : i \in 1..Len(gates)})

\* columns[k]: the gates appended under key k, in input order
column(gates, k) ==
    SelectSeq(Indices(gates), LAMBDA i : column_key(gates[i]) = k)

first_column(gates, keys) ==
    IF keys = <<>> THEN <<>> ELSE column(gates, Head(keys))

-----------------------------------------------------------------------------
(* The simulation engine, as far as the handlers read it *)

\* Statevector(qc), formatted: determined by the operations of the circuit
Statevector(c) == [circuit |-> c]

RECURSIVE Bitstrings(_)
Bitstrings(n) ==
    IF n = 0 THEN {""}
    ELSE {b \o c : b \in Bitstrings(n - 1), c \in {"0", "1"}}

RECURSIVE SumOver(_, _)
SumOver(f, K) ==
    IF K = {} THEN 0
    ELSE LET k == CHOOSE x \in K : TRUE IN f[k] + SumOver(f, K \ {k})

\* sum(counts.values())
SumCounts(counts) == SumOver(counts, DOMAIN counts)

\* what get_counts may hold: any outcomes, up to one more than the shots asked
CountsMaps(n, shots) ==
    {c \in UNION {[K -> 1..(shots + 1)] : K \in SUBSET Bitstrings(n)} :
        SumCounts(c) <= shots + 1}

\* what get_memory returns: one bitstring per shot
MemoryLists(n, shots) == [1..shots -> Bitstrings(n)]

EngNone ==
    [stage |-> "none", counts_kind |-> "none", counts |-> <<>>,
     memory |-> "none", shots_memory |-> <<>>]

\* stage: how far the engine got; counts_kind: the type of get_counts();
\* memory: whether get_memory() was called and returned
EngineOutcomes(r) ==
    {[EngNone EXCEPT !.stage = st] :
        st \in {"backend_unavailable", "transpile_failed", "run_failed"}}
    \cup {[EngNone EXCEPT !.stage = "ran", !.counts_kind = "other"]}
    \cup {[stage |-> "ran", counts_kind |-> k, counts |-> c,
           memory |-> m[1], shots_memory |-> m[2]] :
            k \in {"dict", "list"},
            c \in CountsMaps(r.num_qubits, r.shots),
            m \in IF r.memory
                  THEN {<<"raised", <<>> >>}
                       \cup {<<"returned", l>> : l \in MemoryLists(r.num_qubits, r.shots)}
                  ELSE {<<"not_asked", <<>> >>}}

-----------------------------------------------------------------------------
(* run_circuit after the circuit is built, and the /api/v1/execute handler *)

MemNone == [kind |-> "none", str |-> "", items |-> <<>>]
MemStr(b) == [kind |-> "str", str |-> b, items |-> <<>>]
MemList(l) == [kind |-> "list", str |-> "", items |-> l]

NoResponse ==
    [status |-> 0, error |-> "", detail |-> "", backend |-> "", shots |-> 0,
     counts |-> <<>>, probabilities |-> <<>>, memory |-> MemNone,
     intermediateStates |-> <<>>]

\* raise HTTPException(status_code=400, detail=str(e))
Http400(kind, msg) ==
    [NoResponse EXCEPT !.status = 400, !.error = kind, !.detail = msg]

\* os.getenv("QISKIT_BACKEND", "aer_simulator"), no override in the request
backend_name == "aer_simulator"

\* qc.measure(range(num_qubits), range(num_qubits))
measure_all(n) == Op("measure", [i \in 1..n |-> Some(i - 1)], None)

\* normalising by the observed sum instead of the requested shots
total_observed(shots, counts) == SumCounts(counts)

\* total = float(shots) if shots else sum(counts.values())
total(shots, counts) == IF shots # 0 THEN shots ELSE SumCounts(counts)

\* {str(k): int(v) / total for k, v in counts.items()}
probabilities(counts, shots) ==
    [k \in DOMAIN counts |-> FloatDiv(counts[k], total(shots, counts))]

\* mem = result.get_memory(); memory_out = mem[0] if isinstance(mem, list) else mem
\* (get_memory returns a list; an IndexError is caught like any other exception)
memory_out(memory, e) ==
    IF ~memory THEN MemNone
    ELSE IF e.memory = "raised" THEN MemNone
    ELSE IF Len(e.shots_memory) = 0 THEN MemNone
    ELSE MemStr(e.shots_memory[1])

\* the dict run_circuit returns
run_result(r, e) ==
    [NoResponse EXCEPT
        !.backend = backend_name,
        !.shots = r.shots,
        !.counts = e.counts,
        !.probabilities = probabilities(e.counts, r.shots),
        !.memory = memory_out(r.memory, e)]

\* ExecuteResponse(**result): memory must be None or a list of strings
response_valid(body) == body.memory.kind \in {"none", "list"}

RunRaised(kind, msg) ==
    [ok |-> FALSE, error |-> kind, detail |-> msg, value |-> NoResponse]

\* run_circuit from the backend lookup on: what it raises or returns
run_circuit_tail(r, e) ==
    CASE e.stage = "backend_unavailable" ->
            RunRaised("RuntimeError", "Unable to get backend 'aer_simulator': <engine>")
      [] e.stage = "transpile_failed" ->
            RunRaised("EngineError", "<engine>")
      [] e.stage = "run_failed" ->
            RunRaised("RuntimeError", "Execution failed: <engine>")
      [] e.stage = "ran" /\ e.counts_kind = "other" ->
            RunRaised("RuntimeError", "Unexpected counts format from Qiskit result")
      [] OTHER ->
            [ok |-> TRUE, error |-> "", detail |-> "", value |-> run_result(r, e)]

\* execute: ExecuteResponse(**result, status="success"), or the except clause
execute_response(out) ==
    IF ~out.ok THEN Http400(out.error, out.detail)
    ELSE IF response_valid(out.value) THEN [out.value EXCEPT !.status = 200]
    ELSE Http400("ValidationError", "1 validation error for ExecuteResponse: memory")

-----------------------------------------------------------------------------
(* Requests *)

Gate(t, q, pos, ps, ts, cs) ==
    [type |-> t, qubit |-> q, position |-> pos, params |-> ps,
     targets |-> ts, controls |-> cs]

UnknownTypes == {"foo", "H"}
AllTypes == Vocabulary \cup UnknownTypes

OptQubits == {None} \cup {Some(q) : q \in 0..MaxQubit}
QubitLists == UNION {[1..n -> 0..MaxQubit] : n \in 0..2}
Positions == {None} \cup {Some(p) : p \in 0..MaxPos}

ParamKeys == {"theta", "angle", "phi", "lambda"}
ParamVals == {Num(0), Num(3), Num(90), Str(""), Str("abc")}
ParamMaps == UNION {[K -> ParamVals] : K \in SUBSET ParamKeys}

\* every type with every choice of operands, no params
OperandGates(types) ==
    {Gate(t, q, None, None, ts, cs) :
        t \in types, q \in OptQubits, ts \in QubitLists, cs \in QubitLists}

\* every choice of params, on qubit 0
ParamGates(types) ==
    {Gate(t, Some(0), None, Some(ps), <<>>, <<>>) : t \in types, ps \in ParamMaps}

\* the gates of the longer lists: two that apply, one that fails to normalize
\* (a cz without target), one of unknown type
WalkTemplates ==
    {Gate("h", Some(0), None, None, <<>>, <<>>),
     Gate("x", Some(0), None, None, <<>>, <<>>),
     Gate("cz", Some(0), None, None, <<>>, <<>>),
     Gate("foo", Some(0), None, Some([k \in {"theta"} |-> Str("abc")]), <<0>>, <<>>)}

\* one gate of each kind that fails to normalize
FailingGates ==
    {Gate(t, None, None, None, <<0>>, <<>>) : t \in {"cnot", "cx", "cz"}}
    \cup {Gate(t, Some(0), None, None, <<>>, <<0>>) : t \in {"cnot", "cx", "cz"}}
    \cup {Gate("swap", None, None, None, <<>>, <<0>>),
          Gate("swap", Some(0), None, None, <<>>, <<>>)}
    \cup {Gate(t, None, None, None, <<0>>, <<0>>) : t \in {"toffoli", "ccx"}}
    \cup {Gate(t, None, None, None, <<>>, <<0, 0>>) : t \in {"toffoli", "ccx"}}
    \cup {Gate(t, Some(0), None, Some([k \in {"angle"} |-> Str("abc")]), <<>>, <<>>) :
            t \in {"rx", "ry", "rz", "p"}}

\* a failing gate alone, and in front of a gate that applies
FailingLists ==
    {<<g>> : g \in FailingGates}
    \cup {<<g, Gate("h", Some(0), p, None, <<>>, <<>>)>> :
            g \in FailingGates, p \in {None, Some(MaxPos)}}

\* each template without a position and at the last position, and the h at
\* every position
WalkGates ==
    {[g EXCEPT !.position = p] : g \in WalkTemplates, p \in {None, Some(MaxPos)}}
    \cup {Gate("h", Some(0), p, None, <<>>, <<>>) : p \in Positions}

WalkLists == UNION {[1..n -> WalkGates] : n \in 0..MaxGates}

UnknownSingles ==
    {<<g>> : g \in OperandGates(UnknownTypes) \cup ParamGates(UnknownTypes)}

Request(n, gs, s, m) == [num_qubits |-> n, gates |-> gs, shots |-> s, memory |-> m]

-----------------------------------------------------------------------------
(* Initial states *)

Fresh(r, c, p) ==
    /\ req = r
    /\ endpoint = "none"
    /\ pc = p
    /\ qc = c
    /\ todo = <<>>
    /\ cols = <<>>
    /\ log = <<>>
    /\ handed = <<>>
    /\ snapshots = <<>>
    /\ submitted = FALSE
    /\ eng = [stage |-> "none", memory |-> "none", shots_memory |-> <<>>]
    /\ result = NoResponse
    /\ response = NoResponse

\* a one-qubit request with any list of the walk's gates, a gate of unknown type,
\* or a gate of one of the failing kinds
InitWalk ==
    \E gs \in WalkLists \cup UnknownSingles \cup FailingLists :
        Fresh(Request(1, gs, 1, FALSE), <<>>, "idle")

\* short gate lists with every choice of memory and few shots; the empty list
\* with more shots when no memory is asked
ExecLists ==
    {<<>>,
     <<Gate("h", Some(0), None, None, <<>>, <<>>)>>,
     <<Gate("cz", Some(0), None, None, <<>>, <<>>)>>}

InitExec ==
    \/ \E n \in {1, 2}, gs \in ExecLists, s \in 1..MaxShots, m \in BOOLEAN :
          Fresh(Request(n, gs, s, m), <<>>, "idle")
    \/ \E n \in {1, 2}, s \in 1..MaxCountedShots :
          Fresh(Request(n, <<>>, s, FALSE), <<>>, "idle")

\* one call of _apply_gate, on an empty or a non-empty circuit
BaseCircuits == {<<>>, <<Op("h", <<Some(0)>>, None)>>}

InitGate ==
    \E g \in OperandGates(AllTypes) \cup ParamGates(AllTypes), c \in BaseCircuits :
        Fresh(Request(MaxQubit + 1, <<g>>, 1, FALSE), c, "call")

-----------------------------------------------------------------------------
(* POST /api/v1/execute: run_circuit *)

LogEntry(i, r) == [i |-> i, ok |-> r.ok, detail |-> r.detail]

\* qc = QuantumCircuit(n, n); the loop is over sorted(gates, key=sort_key)
StartExecute ==
    /\ pc = "idle"
    /\ endpoint' = "execute"
    /\ pc' = "run_loop"
    /\ qc' = <<>>
    /\ todo' = sorted_gates(req.gates)
    /\ UNCHANGED <<req, cols, log, handed, snapshots, submitted, eng, result,
                   response>>

\* the walk's tolerance in run_circuit: a failing gate is dropped
RunApplyGateSkip ==
    /\ pc = "run_loop"
    /\ todo # <<>>
    /\ LET r == _apply_gate(qc, req.gates[Head(todo)])
       IN  /\ log' = Append(log, LogEntry(Head(todo), r))
           /\ handed' = handed \o r.handed
           /\ qc' = IF r.ok THEN r.qc ELSE qc
    /\ todo' = Tail(todo)
    /\ UNCHANGED <<req, endpoint, pc, cols, snapshots, submitted, eng, result,
                   response>>

\* one iteration: _apply_gate(qc, g); what it raises leaves run_circuit and is
\* answered by execute's except clause
RunApplyGate ==
    /\ pc = "run_loop"
    /\ todo # <<>>
    /\ LET r == _apply_gate(qc, req.gates[Head(todo)])
       IN  /\ log' = Append(log, LogEntry(Head(todo), r))
           /\ handed' = handed \o r.handed
           /\ IF r.ok
              THEN /\ qc' = r.qc
                   /\ todo' = Tail(todo)
                   /\ UNCHANGED <<pc, response>>
              ELSE /\ response' = Http400(r.error, r.detail)
                   /\ pc' = "done"
                   /\ UNCHANGED <<qc, todo>>
    /\ UNCHANGED <<req, endpoint, cols, snapshots, submitted, eng, result>>

\* after the loop: measure, backend, transpile, run, counts, probabilities,
\* memory, the returned dict and the response model
RunExecute ==
    /\ pc = "run_loop"
    /\ todo = <<>>
    /\ \E e \in EngineOutcomes(req) :
        /\ eng' = [stage |-> e.stage, memory |-> e.memory,
                   shots_memory |-> e.shots_memory]
        /\ submitted' = (e.stage \in {"run_failed", "ran"})
        /\ result' = run_circuit_tail(req, e).value
        /\ response' = execute_response(run_circuit_tail(req, e))
    /\ qc' = Append(qc, measure_all(req.num_qubits))
    /\ pc' = "done"
    /\ UNCHANGED <<req, endpoint, todo, cols, log, handed, snapshots>>

-----------------------------------------------------------------------------
(* POST /api/v1/execute-evolution: get_state_evolution *)

\* columns are grouped, qc = QuantumCircuit(n), the initial snapshot is taken
StartEvolution ==
    /\ pc = "idle"
    /\ endpoint' = "evolution"
    /\ qc' = <<>>
    /\ \E sv_ok \in BOOLEAN :
        IF sv_ok
        THEN /\ snapshots' = <<Statevector(<<>>)>>
             /\ cols' = column_keys(req.gates)
             /\ todo' = first_column(req.gates, column_keys(req.gates))
             /\ pc' = "evo_loop"
             /\ UNCHANGED response
        ELSE /\ response' = Http400("RuntimeError",
                                    "Failed to get initial statevector: <engine>")
             /\ pc' = "done"
             /\ UNCHANGED <<snapshots, cols, todo>>
    /\ UNCHANGED <<req, log, handed, submitted, eng, result>>

\* run_circuit's strictness in the walk: a failing gate ends the request
EvoApplyGateAbort ==
    /\ pc = "evo_loop"
    /\ todo # <<>>
    /\ LET r == _apply_gate(qc, req.gates[Head(todo)])
       IN  /\ log' = Append(log, LogEntry(Head(todo), r))
           /\ handed' = handed \o r.handed
           /\ IF r.ok
              THEN /\ qc' = r.qc
                   /\ todo' = Tail(todo)
                   /\ UNCHANGED <<pc, response>>
              ELSE /\ response' = Http400(r.error, r.detail)
                   /\ pc' = "done"
                   /\ UNCHANGED <<qc, todo>>
    /\ UNCHANGED <<req, endpoint, cols, snapshots, submitted, eng, result>>

\* one gate of the current column: an exception is printed and dropped
EvoApplyGate ==
    /\ pc = "evo_loop"
    /\ todo # <<>>
    /\ LET r == _apply_gate(qc, req.gates[Head(todo)])
       IN  /\ log' = Append(log, LogEntry(Head(todo), r))
           /\ handed' = handed \o r.handed
           /\ qc' = IF r.ok THEN r.qc ELSE qc
    /\ todo' = Tail(todo)
    /\ UNCHANGED <<req, endpoint, pc, cols, snapshots, submitted, eng, result,
                   response>>

\* the column is done: its snapshot, then the next column
EvoSnapshot ==
    /\ pc = "evo_loop"
    /\ cols # <<>>
    /\ todo = <<>>
    /\ \E sv_ok \in BOOLEAN :
        IF sv_ok
        THEN /\ snapshots' = Append(snapshots, Statevector(qc))
             /\ cols' = Tail(cols)
             /\ todo' = first_column(req.gates, Tail(cols))
             /\ UNCHANGED <<pc, response>>
        ELSE /\ response' =
                    Http400("RuntimeError",
                            "Failed to get statevector at column "
                                \o ToString(Head(cols)) \o ": <engine>")
             /\ pc' = "done"
             /\ UNCHANGED <<snapshots, cols, todo>>
    /\ UNCHANGED <<req, endpoint, qc, log, handed, submitted, eng, result>>

\* return {"intermediateStates": snapshots}, wrapped by execute_evolution
EvoReturn ==
    /\ pc = "evo_loop"
    /\ cols = <<>>
    /\ response' = [NoResponse EXCEPT !.status = 200,
                                      !.intermediateStates = snapshots]
    /\ pc' = "done"
    /\ UNCHANGED <<req, endpoint, qc, todo, cols, log, handed, snapshots,
                   submitted, eng, result>>

-----------------------------------------------------------------------------
(* One call of _apply_gate on its own *)

CallApplyGate ==
    /\ pc = "call"
    /\ LET r == _apply_gate(qc, req.gates[1])
       IN  /\ log' = Append(log, LogEntry(1, r))
           /\ handed' = handed \o r.handed
           /\ qc' = r.qc
           /\ response' = IF r.ok THEN response ELSE Http400(r.error, r.detail)
    /\ endpoint' = "gate"
    /\ pc' = "returned"
    /\ UNCHANGED <<req, todo, cols, snapshots, submitted, eng, result>>

-----------------------------------------------------------------------------
(* Specifications *)

Next ==
    \/ StartExecute
    \/ RunApplyGate
    \/ RunExecute
    \/ StartEvolution
    \/ EvoApplyGate
    \/ EvoSnapshot
    \/ EvoReturn

NextGate == CallApplyGate

\* the two handlers over gate lists
Spec == InitWalk /\ [][Next]_vars

\* the two handlers over shots, memory and the engine's answers
SpecExec == InitExec /\ [][Next]_vars

\* _apply_gate over the gate records
SpecGate == InitGate /\ [][NextGate]_vars

-----------------------------------------------------------------------------
(* Claims about _apply_gate, checked under SpecGate *)

TheGate == req.gates[1]
Last(c) == c[Len(c)]

\* C5, as stated: the value handed to the angle resolver is chosen by the
\* presence of the keys: rx, ry: theta, else angle, else 0; rz, p: phi, else
\* lambda, else angle, else 0, whatever the value of the key that is present.
C5_ClaimedArg(gate) ==
    LET ps == gate_params(gate)
    IN  IF gate.type \in {"rx", "ry"}
        THEN IF "theta" \in DOMAIN ps THEN ps["theta"]
             ELSE IF "angle" \in DOMAIN ps THEN ps["angle"]
             ELSE Num(0)
        ELSE IF "phi" \in DOMAIN ps THEN ps["phi"]
             ELSE IF "lambda" \in DOMAIN ps THEN ps["lambda"]
             ELSE IF "angle" \in DOMAIN ps THEN ps["angle"]
             ELSE Num(0)

C5_AngleKeyPriorityByPresence ==
    (pc = "returned" /\ TheGate.type \in {"rx", "ry", "rz", "p"})
        => handed = <<C5_ClaimedArg(TheGate)>>

\* C6, as stated: swap's first operand is qubit if present, else targets[0];
\* the second is targets[0] if the first came from qubit, else controls[0];
\* normalization fails if either is unresolved, else swap(first, second) is applied.
C6_First(gate) ==
    IF gate.qubit # None THEN gate.qubit
    ELSE IF Len(gate.targets) > 0 THEN Some(gate.targets[1]) ELSE None

C6_Second(gate) ==
    IF gate.qubit # None
    THEN IF Len(gate.targets) > 0 THEN Some(gate.targets[1]) ELSE None
    ELSE IF Len(gate.controls) > 0 THEN Some(gate.controls[1]) ELSE None

C6_SwapOperands ==
    (pc = "returned" /\ TheGate.type = "swap")
        => IF C6_First(TheGate) = None \/ C6_Second(TheGate) = None
           THEN ~log[1].ok
           ELSE /\ log[1].ok
                /\ Last(qc) = Op("swap", <<C6_First(TheGate), C6_Second(TheGate)>>, None)

\* C9: for cnot, cx and cz the control is qubit whenever qubit is present (0
\* included, controls ignored), else controls[0]; the target is targets[0]; the
\* call raises and applies nothing exactly when control or target is unresolved,
\* and otherwise appends the one controlled operation on (control, target).
C9_Control(gate) ==
    IF gate.qubit # None THEN gate.qubit
    ELSE IF Len(gate.controls) > 0 THEN Some(gate.controls[1]) ELSE None

C9_Target(gate) ==
    IF Len(gate.targets) > 0 THEN Some(gate.targets[1]) ELSE None

C9_Step ==
    (pc = "call" /\ pc' = "returned" /\ TheGate.type \in {"cnot", "cx", "cz"})
        => IF C9_Control(TheGate) = None \/ C9_Target(TheGate) = None
           THEN /\ qc' = qc
                /\ ~log'[1].ok
                /\ response'.status = 400
                /\ response'.error = "ValueError"
           ELSE /\ log'[1].ok
                /\ response' = response
                /\ qc' = Append(qc, Op(IF TheGate.type = "cz" THEN "cz" ELSE "cx",
                                       <<C9_Control(TheGate), C9_Target(TheGate)>>,
                                       None))

C9_ControlTargetResolution == [][C9_Step]_vars

\* qubit = 0 with controls = [1]: the control is 0, on a circuit that held a gate
C9_Witness ==
    /\ pc = "returned"
    /\ TheGate.type = "cnot"
    /\ TheGate.qubit = Some(0)
    /\ TheGate.controls = <<1>>
    /\ TheGate.targets = <<1>>
    /\ Len(qc) = 2
    /\ Last(qc) = Op("cx", <<Some(0), Some(1)>>, None)

-----------------------------------------------------------------------------
(* Claims about the two handlers over gate lists, checked under Spec *)

Gates == req.gates
NGates == Len(req.gates)

\* the position a gate resolves to: an absent position is 0
ResolvedPosition(gate) == IF gate.position = None THEN 0 ELSE gate.position[1]

\* gate i comes before gate j: lower position, or same position and earlier input
Before(i, j) ==
    \/ ResolvedPosition(Gates[i]) < ResolvedPosition(Gates[j])
    \/ ResolvedPosition(Gates[i]) = ResolvedPosition(Gates[j]) /\ i < j

\* the one order of all the gates that is ascending in position and keeps the
\* input order inside a position
ClaimOrder ==
    [k \in 1..NGates |->
        CHOOSE i \in 1..NGates :
            Cardinality({j \in 1..NGates : Before(j, i)}) = k - 1]

LogIndices == [k \in 1..Len(log) |-> log[k].i]

Normalizes(gate) == _apply_gate(<<>>, gate).ok

\* the circuit after the gates idxs, a gate that fails to normalize adding nothing
RECURSIVE ApplyAll(_, _)
ApplyAll(c, idxs) ==
    IF idxs = <<>> THEN c
    ELSE LET r == _apply_gate(c, Gates[Head(idxs)])
         IN  ApplyAll(IF r.ok THEN r.qc ELSE c, Tail(idxs))

Measured == Len(qc) > 0 /\ Last(qc).name = "measure"

\* C1: both handlers call _apply_gate in ascending order of resolved position,
\* gates of one position in input order; a run_circuit that reaches the
\* measurement and an evolution that returns have gone through all the gates in
\* that one order, so when every gate normalizes both have applied the same
\* operations (run_circuit then appends the measurement).
C1_AscendingStableOrder ==
    /\ \A a, b \in 1..Len(log) : a < b => Before(log[a].i, log[b].i)
    /\ (endpoint = "execute" /\ Measured)
          => /\ LogIndices = ClaimOrder
             /\ qc = Append(ApplyAll(<<>>, ClaimOrder), measure_all(req.num_qubits))
    /\ (endpoint = "evolution" /\ pc = "done" /\ response.status = 200)
          => /\ LogIndices = ClaimOrder
             /\ (\A i \in 1..NGates : Normalizes(Gates[i]))
                    => qc = ApplyAll(<<>>, ClaimOrder)

\* positions 1, absent, 0 in the input: applied as second, third, first
C1_Witness ==
    /\ endpoint = "execute"
    /\ response.status = 200
    /\ NGates = 3
    /\ Gates[1].position = Some(1) /\ Gates[1].type = "h"
    /\ Gates[2].position = None /\ Gates[2].type = "x"
    /\ Gates[3].position = Some(0) /\ Gates[3].type = "h"
    /\ LogIndices = <<2, 3, 1>>
    /\ Len(qc) = 4

\* the distinct resolved positions of the list, ascending
OccupiedPositions == SortedSeq({ResolvedPosition(Gates[i]) : i \in 1..NGates})

\* the gates of the first k occupied positions, in order
GatesUpTo(k) ==
    IF k = 0 THEN <<>>
    ELSE LET top == OccupiedPositions[k]
         IN  SelectSeq(ClaimOrder, LAMBDA i : ResolvedPosition(Gates[i]) <= top)

\* C2: get_state_evolution returns 1 + D snapshots, D the number of distinct
\* resolved positions: the first is of the empty circuit, snapshot k + 1 is taken
\* when the gates of the first k occupied positions have been gone through, and
\* an unoccupied position gives none.
C2_SnapshotCount ==
    endpoint = "evolution" =>
        /\ pc = "evo_loop" =>
              Len(snapshots) = 1 + Len(OccupiedPositions) - Len(cols)
        /\ pc = "evo_loop" =>
              /\ snapshots[1] = Statevector(<<>>)
              /\ Last(snapshots) =
                    Statevector(ApplyAll(<<>>, GatesUpTo(Len(snapshots) - 1)))
        /\ (pc = "done" /\ response.status = 200) =>
              /\ response.intermediateStates = snapshots
              /\ Len(snapshots) = 1 + Len(OccupiedPositions)
              /\ \A j \in 1..Len(snapshots) :
                    snapshots[j] = Statevector(ApplyAll(<<>>, GatesUpTo(j - 1)))

\* three gates, all at the last position, nothing at the positions before it:
\* one column, two snapshots
C2_Witness ==
    /\ endpoint = "evolution"
    /\ pc = "done"
    /\ response.status = 200
    /\ NGates = 3
    /\ \A i \in 1..NGates : Gates[i].position = Some(MaxPos) /\ Gates[i].type = "h"
    /\ Len(response.intermediateStates) = 2

SnapshotFailures ==
    {"Failed to get initial statevector: <engine>"}
    \cup {"Failed to get statevector at column " \o ToString(k) \o ": <engine>" :
            k \in 0..MaxPos}

\* the failures the claim lists: cnot/cz without control or target, swap with no
\* operand at all, toffoli short of controls or target, a rotation whose only
\* angle key holds text that is no number
ListedFailure(gate) ==
    \/ /\ gate.type \in {"cnot", "cx", "cz"}
       /\ (gate.qubit = None /\ gate.controls = <<>>) \/ gate.targets = <<>>
    \/ /\ gate.type = "swap"
       /\ gate.targets = <<>>
       /\ gate.qubit = None \/ gate.controls = <<>>
    \/ /\ gate.type \in {"toffoli", "ccx"}
       /\ Len(gate.controls) < 2 \/ Len(gate.targets) < 1
    \/ /\ gate.type \in {"rx", "ry", "rz", "p"}
       /\ gate.params # None
       /\ DOMAIN gate.params[1] = {"angle"}
       /\ gate.params[1]["angle"] = Str("abc")

\* C3: in get_state_evolution a gate that fails to normalize changes nothing and
\* stops nothing: the listed failures do fail, the circuit is always the one of
\* the gates gone through so far with the failing ones left out, a returned walk
\* has gone through every gate in order and took every column's snapshot, and
\* the only failure of the request is a failed state-vector computation.
C3_SkipAndContinue ==
    endpoint = "evolution" =>
        /\ \A k \in 1..Len(log) : ListedFailure(Gates[log[k].i]) => ~log[k].ok
        /\ qc = ApplyAll(<<>>, LogIndices)
        /\ Len(qc) = Cardinality({k \in 1..Len(log) :
                        log[k].ok /\ Gates[log[k].i].type \in Vocabulary})
        /\ (pc = "done" /\ response.status # 200) =>
              /\ response.status = 400
              /\ response.detail \in SnapshotFailures
        /\ (pc = "done" /\ response.status = 200) =>
              /\ LogIndices = ClaimOrder
              /\ Len(response.intermediateStates) = 1 + Len(OccupiedPositions)

\* a failing gate first in its column, a good gate after it, a good gate later
C3_Witness ==
    /\ endpoint = "evolution"
    /\ pc = "done"
    /\ response.status = 200
    /\ Len(log) = 3
    /\ ~log[1].ok /\ log[2].ok /\ log[3].ok
    /\ Gates[log[2].i].type = "x" /\ Gates[log[3].i].type = "h"
    /\ ResolvedPosition(Gates[log[1].i]) = ResolvedPosition(Gates[log[2].i])
    /\ ResolvedPosition(Gates[log[2].i]) < ResolvedPosition(Gates[log[3].i])
    /\ Len(qc) = 2
    /\ Len(response.intermediateStates) = 3

\* C4: in run_circuit a gate that fails to normalize ends the request: it is the
\* last gate gone through, the circuit holds only the gates before it and no
\* measurement, nothing reached a backend, nothing was returned, and the answer
\* is 400 with the failure's text; a list with such a gate never succeeds.
C4_FailFast ==
    endpoint = "execute" =>
        /\ \A k \in 1..Len(log) :
              ~log[k].ok =>
                  /\ k = Len(log)
                  /\ pc = "done"
                  /\ response = Http400("ValueError", log[k].detail)
                  /\ log[k].detail = _apply_gate(<<>>, Gates[log[k].i]).detail
                  /\ qc = ApplyAll(<<>>, SubSeq(LogIndices, 1, k - 1))
                  /\ ~Measured
                  /\ ~submitted
                  /\ eng.stage = "none"
                  /\ result = NoResponse
        /\ (pc = "done" /\ \E i \in 1..NGates : ~Normalizes(Gates[i]))
              => /\ response.status = 400
                 /\ \E k \in 1..Len(log) : ~log[k].ok

\* the second gate in column order fails, the third is never reached
C4_Witness ==
    /\ endpoint = "execute"
    /\ pc = "done"
    /\ NGates = 3
    /\ Len(log) = 2
    /\ log[1].ok /\ ~log[2].ok
    /\ Gates[log[2].i].type = "cz"
    /\ Len(qc) = 1
    /\ response.status = 400
    /\ response.detail = "CZ requires control and target"

\* the gates of the k-th occupied position
ColumnOf(k) ==
    {i \in 1..NGates : ResolvedPosition(Gates[i]) = OccupiedPositions[k]}

\* C10: a gate whose type is outside the vocabulary never raises and never adds
\* an operation, in either handler and whatever its other fields: the circuit
\* holds one operation for each gate of the vocabulary that normalized, and in
\* the walk the snapshot of a column of such gates only equals the one before.
C10_UnknownTypeIsNoOp ==
    /\ \A k \in 1..Len(log) : Gates[log[k].i].type \notin Vocabulary => log[k].ok
    /\ endpoint \in {"execute", "evolution"} =>
          Len(qc) = Cardinality({k \in 1..Len(log) :
                        log[k].ok /\ Gates[log[k].i].type \in Vocabulary})
                    + (IF Measured THEN 1 ELSE 0)
    /\ (endpoint = "evolution" /\ Len(snapshots) >= 2) =>
          LET j == Len(snapshots)
          IN  (\A i \in ColumnOf(j - 1) : Gates[i].type \notin Vocabulary)
                  => snapshots[j] = snapshots[j - 1]
    /\ (endpoint = "evolution" /\ pc = "done" /\ response.status = 200) =>
          \A j \in 2..Len(response.intermediateStates) :
              (\A i \in ColumnOf(j - 1) : Gates[i].type \notin Vocabulary)
                  => response.intermediateStates[j] = response.intermediateStates[j - 1]
    /\ (endpoint = "execute" /\ pc = "done"
            /\ \A i \in 1..NGates : Gates[i].type \notin Vocabulary)
          => Measured /\ qc = <<measure_all(req.num_qubits)>>

\* column 0 holds an h, the later column only gates of unknown type
C10_Witness ==
    /\ endpoint = "evolution"
    /\ pc = "done"
    /\ response.status = 200
    /\ NGates = 3
    /\ Gates[1].type = "foo" /\ Gates[1].position = Some(1)
    /\ Gates[2].type = "h" /\ Gates[2].position = None
    /\ Gates[3].type = "foo" /\ Gates[3].position = Some(1)
    /\ Len(response.intermediateStates) = 3
    /\ response.intermediateStates[3] = response.intermediateStates[2]
    /\ response.intermediateStates[2] # response.intermediateStates[1]

-----------------------------------------------------------------------------
(* Claims about the execution driver, checked under SpecExec *)

\* run_circuit returned a dict (whatever the response model then made of it)
RunReturned == endpoint = "execute" /\ pc = "done" /\ result # NoResponse

\* C7, as stated: with memory=true and the engine's memory supplied, the memory
\* field of the result is the engine's list of per-shot bitstrings and the answer
\* is 200 with it; with memory=false, or no memory from the engine, the field is
\* None and the request succeeds.
C7_MemoryIsPerShotList ==
    RunReturned =>
        IF req.memory /\ eng.memory = "returned"
        THEN /\ result.memory = MemList(eng.shots_memory)
             /\ response.status = 200
             /\ response.memory = MemList(eng.shots_memory)
        ELSE /\ result.memory = MemNone
             /\ response.status = 200
             /\ response.memory = MemNone

\* an exact binary number: an integer part and FracBits bits after the point,
\* frac[i] of weight 2^-i; every quotient c / s of the model is at least 2^-s
FracBits == MantissaBits + MaxCountedShots

RECURSIVE IntPart(_, _)
IntPart(d, j) ==
    IF j > d.exp + 1 \/ j > MantissaBits THEN 0
    ELSE d.bits[j] * Pow2(d.exp + 1 - j) + IntPart(d, j + 1)

\* the value of a double, exactly
Exact(d) ==
    [int  |-> IntPart(d, 1),
     frac |-> Bits([i \in 1..FracBits |->
                       IF d.exp + i + 1 \in 1..MantissaBits
                       THEN d.bits[d.exp + i + 1] ELSE 0], FracBits)]

\* the carry of a + b into position i (0 is the units): some lower position
\* holds two ones, and every position between holds exactly one
Carry(a, b, i) ==
    IF \E j \in (i + 1)..FracBits :
           /\ a[j] + b[j] = 2
           /\ \A k \in (i + 1)..(j - 1) : a[k] + b[k] = 1
    THEN 1 ELSE 0

ExactAdd(a, b) ==
    [int  |-> a.int + b.int + Carry(a.frac, b.frac, 0),
     frac |-> Bits([i \in 1..FracBits |->
                       (a.frac[i] + b.frac[i] + Carry(a.frac, b.frac, i)) % 2],
                   FracBits)]

ExactLeq(a, b) ==
    \/ a.int < b.int
    \/ /\ a.int = b.int
       /\ \/ \A i \in 1..FracBits : a.frac[i] = b.frac[i]
          \/ \E i \in 1..FracBits :
                /\ a.frac[i] < b.frac[i]
                /\ \A j \in 1..(i - 1) : a.frac[j] = b.frac[j]

ExactZero == [int |-> 0, frac |-> ZeroBits(FracBits)]
ExactOne == [ExactZero EXCEPT !.int = 1]

\* 2^-(MantissaBits + 1): half the spacing of the doubles in [1/2, 1)
HalfUlp ==
    [ExactZero EXCEPT !.frac[MantissaBits + 1] = 1]

\* the sum of the probabilities as real numbers
RECURSIVE ExactSum(_, _)
ExactSum(ps, K) ==
    IF K = {} THEN ExactZero
    ELSE LET k == CHOOSE x \in K : TRUE
         IN  ExactAdd(Exact(ps[k]), ExactSum(ps, K \ {k}))

\* 1 + n * 2^-(MantissaBits + 1)
RECURSIVE OnePlusHalfUlps(_)
OnePlusHalfUlps(n) ==
    IF n = 0 THEN ExactOne ELSE ExactAdd(HalfUlp, OnePlusHalfUlps(n - 1))

\* the part of C8 that does not depend on rounding: the keys, the quotient by
\* the requested shots, and what the 200 answer carries
C8_KeysAndQuotients ==
    /\ DOMAIN result.probabilities = DOMAIN result.counts
    /\ \A k \in DOMAIN result.counts :
          result.probabilities[k] = FloatDiv(result.counts[k], req.shots)
    /\ response.status = 200
          => /\ response.counts = result.counts
             /\ response.probabilities = result.probabilities
             /\ response.shots = req.shots

\* C8, as stated: whenever run_circuit returns (shots >= 1), probabilities has
\* exactly the keys of counts and probabilities[k] is counts[k] divided by the
\* requested shots, and the probabilities sum to at most 1 whenever the counts
\* sum to at most shots.
C8_ProbabilitiesSumAtMostOne ==
    RunReturned =>
        /\ C8_KeysAndQuotients
        /\ SumCounts(result.counts) <= req.shots
              => ExactLeq(ExactSum(result.probabilities, DOMAIN result.counts),
                          ExactOne)

\* C8, amended: whenever run_circuit returns (shots >= 1), probabilities has
\* exactly the keys of counts and probabilities[k] is counts[k] divided by the
\* requested shots in double precision, and whenever the counts sum to at most
\* shots the probabilities sum to at most 1 plus half a unit in the last place
\* (2^-54) for each key.
C8_ProbabilitiesOverShots ==
    RunReturned =>
        /\ C8_KeysAndQuotients
        /\ SumCounts(result.counts) <= req.shots
              => ExactLeq(ExactSum(result.probabilities, DOMAIN result.counts),
                          OnePlusHalfUlps(Cardinality(DOMAIN result.counts)))

\* ten shots asked and all ten reported as 2, 4, 3 and 1: each probability is
\* the count over ten, and the four doubles sum to more than 1
C8_Witness ==
    /\ RunReturned
    /\ response.status = 200
    /\ req.shots = 10
    /\ result.counts = [k \in {"00", "01", "10", "11"} |->
                           CASE k = "00" -> 2 [] k = "01" -> 4
                             [] k = "10" -> 3 [] OTHER -> 1]
    /\ \A k \in DOMAIN result.counts :
          response.probabilities[k] = FloatDiv(result.counts[k], 10)
    /\ ~ExactLeq(ExactSum(result.probabilities, DOMAIN result.counts), ExactOne)

=============================================================================
